---- MODULE Spec2Model ----
(***************************************************************************)
(* Model of the issue-states library: the state/relation data model        *)
(* (state.rs), the left join of two key-sorted sequences (iter.rs), the    *)
(* dependency ordering of a set of states (IssueStateSet::from_set) and    *)
(* the resolution of an issue's state (IssueStateSet::issue_state), both   *)
(* in resolution.rs.                                                       *)
(*                                                                         *)
(* A state is identified by its name: PartialEq and Ord of IssueState      *)
(* compare the name only.  Names are the integers 1..NumStates, their      *)
(* order standing for the lexicographic order of the names.                *)
(***************************************************************************)
EXTENDS Integers, Sequences, FiniteSets, TLC

\* ------------------------------------------------------------------ bounds

NumStates == 3
MaxRelations == 3
NumConds == 1
MaxConds == 1

Names == 1..NumStates
Conds == 1..NumConds

\* ------------------------------------------------------------- data model

\* state::StateRelation
StateRelation == {"Extends", "Overrides"}

\* Option<T>
None == [some |-> FALSE]
Some(v) == [some |-> TRUE, val |-> v]

\* The entries of a BTreeSet or the keys of a BTreeMap in iteration order:
\* ascending by Ord, which for IssueState is the order of the names.
RECURSIVE Ascending(_)
Ascending(S) ==
    IF S = {} THEN <<>>
    ELSE LET m == CHOOSE x \in S : \A y \in S : x <= y
         IN <<m>> \o Ascending(S \ {m})

Range(seq) == {seq[i] : i \in 1..Len(seq)}

\* BTreeMap::iter(): the (key, value) entries of a map, ascending by key
MapIter(m) == LET ks == Ascending(DOMAIN m)
              IN [i \in 1..Len(ks) |-> <<ks[i], m[ks[i]]>>]

\* BTreeSet::iter().map(|item| (item, ())): entries (key, unit)
SetIter(S) == LET ks == Ascending(S)
              IN [i \in 1..Len(ks) |-> <<ks[i], "unit">>]

\* BTreeMap::insert: the value of an existing key is replaced
MapInsert(m, k, v) == [x \in (DOMAIN m) \cup {k} |-> IF x = k THEN v ELSE m[x]]

EmptyMap == [x \in {} |-> FALSE]

VARIABLES
    relations,    \* IssueState::relations of every state: target -> kind
    conditions,   \* IssueState::conditions of every state: Vec of conditions
    pc,           \* what the program is doing
    states,       \* from_set: the origin set, states not yet transferred
    data,         \* from_set: the result sequence; then IssueStateSet::data
    rounds,       \* from_set: iterations of the loop entered so far
    input,        \* from_set: the set it was called with
    prev,         \* the sequence of the build whose states were fed back in
    origin,       \* which constructor made the catalog
    issue,        \* issue_state: the issue, as the set of conditions it satisfies
    idx,          \* issue_state: position of the next state of the scan
    enabled_map,  \* issue_state: EnabledMap
    retval        \* issue_state: the state kept so far

\* A LeftJoin iterator in use (iter.rs)
VARIABLES
    join_left,    \* LeftJoin::left: the items the left iterator still yields
    join_right,   \* LeftJoin::right: the items the right iterator still yields
    join_buf,     \* LeftJoin::buf
    yielded,      \* the items LeftJoin::next has returned so far
    join_in       \* the two sequences the LeftJoin was created from

\* A call of parse_condition (condition.rs)
VARIABLES
    parse_in,     \* the string handed to parse_condition
    parsed        \* what parse_condition returned, if it has returned

\* A call of conditions_satisfied (state.rs)
VARIABLES
    satisfied     \* the state, the issue and the value returned, if any

\* Calls of issue_state running side by side on one catalog
VARIABLES
    calls         \* the locals of every call: issue, position, map, retval

\* The YAML front end (yaml.rs)
VARIABLES
    yaml_doc,     \* the events of the document, as the parser will give them
    yaml_parser,  \* parser::Parser: the events not yet taken
    iter_state,   \* StringIter::state
    iter_out,     \* what the calls of StringIter::next have returned
    yaml_out      \* what parse_issue_states returned, if it has returned

resolveVars == <<relations, conditions, pc, states, data, rounds, input, prev,
                 origin, issue, idx, enabled_map, retval>>

joinVars == <<join_left, join_right, join_buf, yielded, join_in>>

parseVars == <<parse_in, parsed>>

yamlVars == <<yaml_doc, yaml_parser, iter_state, iter_out, yaml_out>>

otherVars == <<joinVars, parseVars, satisfied, calls, yamlVars>>

vars == <<resolveVars, otherVars>>

\* --------------------------------------------------------------- left join

\* Iterator::next() on the right iterator
IterNext(it) == IF it = <<>> THEN [item |-> None, rest |-> <<>>]
                ELSE [item |-> Some(Head(it)), rest |-> Tail(it)]

\* Variant of NextRightLoop with a fault: a right element with a greater key
\* is not stored back into the buffer
RECURSIVE NextRightLoop_DropBuf(_, _, _)
NextRightLoop_DropBuf(buf, right, key) ==
    IF buf.some /\ buf.val[1] < key
    THEN LET n == IterNext(right) IN NextRightLoop_DropBuf(n.item, n.rest, key)
    ELSE IF buf.some /\ buf.val[1] = key
    THEN [value |-> Some(buf.val[2]), buf |-> None, right |-> right]
    ELSE [value |-> None, buf |-> None, right |-> right]

\* The loop of LeftJoin::next_right, entered with the local buf
RECURSIVE NextRightLoop(_, _, _)
NextRightLoop(buf, right, key) ==
    IF buf.some /\ buf.val[1] < key
    THEN LET n == IterNext(right) IN NextRightLoop(n.item, n.rest, key)
    ELSE IF buf.some /\ buf.val[1] = key
    THEN [value |-> Some(buf.val[2]), buf |-> None, right |-> right]
    ELSE [value |-> None, buf |-> buf, right |-> right]

\* Variant of NextRight with a fault: the buffered element is never taken,
\* the loop always starts from the next element of the right iterator
NextRight_NoBuf(buf, right, key) ==
    LET n == IterNext(right) IN NextRightLoop(n.item, n.rest, key)

\* LeftJoin::next_right: self.buf.take().or_else(|| self.right.next())
NextRight(buf, right, key) ==
    IF buf.some THEN NextRightLoop(buf, right, key)
    ELSE LET n == IterNext(right) IN NextRightLoop(n.item, n.rest, key)

\* LeftJoin::next, iterated until the left iterator ends
RECURSIVE LeftJoinFrom(_, _, _)
LeftJoinFrom(left, right, buf) ==
    IF left = <<>> THEN <<>>
    ELSE LET item == Head(left)
             r == NextRight(buf, right, item[1])
         IN <<<<item[2], r.value>>>> \o LeftJoinFrom(Tail(left), r.right, r.buf)

\* LeftJoinable::join_left / LeftJoin::new, collected
JoinLeft(left, right) == LeftJoinFrom(left, right, None)

\* ---------------------------------------------------------------- from_set

\* Variants of DepsLeft with a fault: only relations of one kind are looked
\* at, or any relation at all counts as a dependency left in the origin set
DepsLeft_ExtendsOnly(rel, sts) ==
    LET j == JoinLeft(MapIter(rel), SetIter(sts))
    IN \E i \in 1..Len(j) : j[i][1] = "Extends" /\ j[i][2].some

DepsLeft_OverridesOnly(rel, sts) ==
    LET j == JoinLeft(MapIter(rel), SetIter(sts))
    IN \E i \in 1..Len(j) : j[i][1] = "Overrides" /\ j[i][2].some

DepsLeft_AnyRelation(rel, sts) ==
    LET j == JoinLeft(MapIter(rel), SetIter(sts))
    IN \E i \in 1..Len(j) : TRUE

\* The closure of the filter in from_set: the left join of the state's
\* relations with the origin set yields a right value for some relation
DepsLeft(rel, sts) ==
    LET j == JoinLeft(MapIter(rel), SetIter(sts))
    IN \E i \in 1..Len(j) : j[i][2].some

\* Variant of Batch with a fault: a round moves the first state without
\* dependencies left only
Batch_OneAtATime(relOf, sts) ==
    LET Free(s) == ~DepsLeft(relOf[s], sts)
        moved == SelectSeq(Ascending(sts), Free)
    IN IF moved = <<>> THEN <<>> ELSE <<Head(moved)>>

\* Variant of Batch with a fault: the relation targets of the states moved
\* are moved along with them, whether or not the origin set holds them
Batch_WithTargets(relOf, sts) ==
    LET Free(s) == ~DepsLeft(relOf[s], sts)
        moved == SelectSeq(Ascending(sts), Free)
    IN moved \o Ascending((UNION {DOMAIN relOf[s] : s \in Range(moved)}) \ sts)

\* states.iter().filter(..).map(Clone::clone): what one round appends to data
Batch(relOf, sts) ==
    LET Free(s) == ~DepsLeft(relOf[s], sts)
    IN SelectSeq(Ascending(sts), Free)

\* Variant of NoneFound with a fault: a round without progress goes unnoticed
NoneFound_Never(new_len, old_len) == FALSE

\* data.len() == old_len
NoneFound(new_len, old_len) == new_len = old_len

\* from_set is entered with a set of states
FromSetCall(S) ==
    /\ pc = "idle"
    /\ pc' = "from_set"
    /\ states' = S
    /\ input' = S
    /\ data' = <<>>
    /\ rounds' = 0
    /\ prev' = None
    /\ origin' = "from_set"
    /\ UNCHANGED otherVars
    /\ UNCHANGED <<relations, conditions, issue, idx, enabled_map, retval>>

\* One iteration of the while loop of from_set
FromSetRound ==
    /\ pc = "from_set"
    /\ states /= {}
    /\ LET old_len == Len(data)
           new_data == data \o Batch(relations, states)
           added == {new_data[i] : i \in (old_len + 1)..Len(new_data)}
       IN /\ data' = new_data
          /\ states' = states \ added
          /\ rounds' = rounds + 1
          /\ \/ /\ NoneFound(Len(new_data), old_len)
                /\ pc' = "CyclicDependency"
             \/ /\ ~NoneFound(Len(new_data), old_len)
                /\ pc' = "from_set"
    /\ UNCHANGED otherVars
    /\ UNCHANGED <<relations, conditions, input, prev, origin,
                   issue, idx, enabled_map, retval>>

\* The loop ends: Ok(Self {data: data.into_boxed_slice()})
FromSetReturn ==
    /\ pc = "from_set"
    /\ states = {}
    /\ pc' = "built"
    /\ UNCHANGED otherVars
    /\ UNCHANGED <<relations, conditions, states, data, rounds, input, prev,
                   origin, issue, idx, enabled_map, retval>>

\* The states of a built catalog are collected into a set again and handed
\* to from_set
Rebuild ==
    /\ pc = "built"
    /\ origin = "from_set"
    /\ prev = None
    /\ pc' = "from_set"
    /\ states' = Range(data)
    /\ input' = Range(data)
    /\ prev' = Some(data)
    /\ data' = <<>>
    /\ rounds' = 0
    /\ UNCHANGED otherVars
    /\ UNCHANGED <<relations, conditions, origin, issue, idx, enabled_map, retval>>

\* From<IssueStateVec> for IssueStateSet: the vector is taken as it is
FromVec(v) ==
    /\ pc = "idle"
    /\ pc' = "built"
    /\ data' = v
    /\ origin' = "from_vec"
    /\ UNCHANGED otherVars
    /\ UNCHANGED <<relations, conditions, states, rounds, input, prev,
                   issue, idx, enabled_map, retval>>

\* ------------------------------------------------------------- issue_state

\* Condition::satisfied_by: the issue is the set of conditions it satisfies
SatisfiedBy(c, iss) == c \in iss

\* Variant of ConditionsSatisfied with a fault: one satisfied condition is
\* enough (any instead of all)
ConditionsSatisfied_Any(s, iss) ==
    \E i \in 1..Len(conditions[s]) : SatisfiedBy(conditions[s][i], iss)

\* IssueState::conditions_satisfied
ConditionsSatisfied(s, iss) ==
    \A i \in 1..Len(conditions[s]) : SatisfiedBy(conditions[s][i], iss)

\* Variant of FoldDeps with a fault: the value of the last item replaces the
\* conjunction of all of them
RECURSIVE FoldDeps_Last(_, _)
FoldDeps_Last(items, acc) ==
    IF items = <<>> THEN acc
    ELSE FoldDeps_Last(Tail(items),
                       IF acc.some /\ Head(items).some
                       THEN Some(Head(items).val)
                       ELSE None)

\* The fold of deps_enabled over the Option<&bool> items
RECURSIVE FoldDeps(_, _)
FoldDeps(items, acc) ==
    IF items = <<>> THEN acc
    ELSE FoldDeps(Tail(items),
                  IF acc.some /\ Head(items).some
                  THEN Some(acc.val /\ Head(items).val)
                  ELSE None)

\* Variant of ExtendsOnly with a fault: relations of both kinds are kept
ExtendsOnly_AllKinds(j) == [i \in 1..Len(j) |-> j[i][2]]

\* The filter_map of deps_enabled: an Extends item gives its right value
ExtendsOnly(j) ==
    LET IsExtends(item) == item[1] = "Extends"
        kept == SelectSeq(j, IsExtends)
    IN [i \in 1..Len(kept) |-> kept[i][2]]

\* deps_enabled: Some(b) stands for Ok(b), None for Err(DependencyError)
DepsEnabled(rel, map) ==
    FoldDeps(ExtendsOnly(JoinLeft(MapIter(rel), MapIter(map))), Some(TRUE))

\* Variant of Enabled with a fault: the states extended do not gate the state
Enabled_OwnOnly(rel, state, iss, map) == Some(ConditionsSatisfied(state, iss))

\* state.conditions_satisfied(issue) && deps_enabled(&state, &enabled_map)?
\* Some(b) stands for the value b, None for the early return of the error;
\* && evaluates its right side only when the left side is true
Enabled(rel, state, iss, map) ==
    IF ConditionsSatisfied(state, iss) THEN DepsEnabled(rel, map) ELSE Some(FALSE)

\* Variants of NewRetval with a fault: every state scanned is kept, or the
\* first enabled state is never replaced
NewRetval_Always(old, state, enabled) == Some(state)

NewRetval_First(old, state, enabled) ==
    IF enabled /\ ~old.some THEN Some(state) ELSE old

\* if enabled { retval = Some(state); }
NewRetval(old, state, enabled) == IF enabled THEN Some(state) ELSE old

\* The for loop of issue_state run to its end from a position of the scan:
\* the outcome is the error or the value returned
RECURSIVE IssueStateFrom(_, _, _, _, _)
IssueStateFrom(relOf, rest, iss, map, ret) ==
    IF rest = <<>> THEN [err |-> FALSE, ret |-> ret]
    ELSE LET state == Head(rest)
             e == Enabled(relOf[state], state, iss, map)
         IN IF ~e.some THEN [err |-> TRUE, ret |-> None]
            ELSE IssueStateFrom(relOf, Tail(rest), iss,
                                MapInsert(map, state, e.val),
                                NewRetval(ret, state, e.val))

\* issue_state is entered with an issue
IssueStateCall(iss) ==
    /\ pc = "built"
    /\ pc' = "scan"
    /\ issue' = iss
    /\ idx' = 1
    /\ enabled_map' = EmptyMap
    /\ retval' = None
    /\ UNCHANGED otherVars
    /\ UNCHANGED <<relations, conditions, states, data, rounds, input, prev, origin>>

\* One iteration of the for loop of issue_state
IssueStateStep ==
    /\ pc = "scan"
    /\ idx <= Len(data)
    /\ LET state == data[idx]
           e == Enabled(relations[state], state, issue, enabled_map)
       IN \/ /\ ~e.some
             /\ pc' = "DependencyError"
             /\ UNCHANGED <<idx, enabled_map, retval>>
          \/ /\ e.some
             /\ enabled_map' = MapInsert(enabled_map, state, e.val)
             /\ retval' = NewRetval(retval, state, e.val)
             /\ idx' = idx + 1
             /\ pc' = "scan"
    /\ UNCHANGED otherVars
    /\ UNCHANGED <<relations, conditions, states, data, rounds, input, prev,
                   origin, issue>>

\* The loop ends: Ok(retval.map(Clone::clone))
IssueStateReturn ==
    /\ pc = "scan"
    /\ idx > Len(data)
    /\ pc' = "returned"
    /\ UNCHANGED otherVars
    /\ UNCHANGED <<relations, conditions, states, data, rounds, input, prev,
                   origin, issue, idx, enabled_map, retval>>

\* ---------------------------------------------------------- specifications

\* The relation maps of all states with at most MaxRelations relations in all
EdgeSets == {es \in SUBSET (Names \X Names) : Cardinality(es) <= MaxRelations}

RelationsOf(es, kind) ==
    [s \in Names |-> [t \in {x \in Names : <<s, x>> \in es} |-> kind[<<s, t>>]]]

\* The condition vectors a state may hold
CondVecs == UNION {[1..n -> Conds] : n \in 0..MaxConds}

\* Vectors of distinct states
StateVecs == {v \in UNION {[1..n -> Names] : n \in 0..NumStates} :
                 \A i, j \in 1..Len(v) : i /= j => v[i] /= v[j]}

InitLocals ==
    /\ pc = "idle"
    /\ states = {}
    /\ data = <<>>
    /\ rounds = 0
    /\ input = {}
    /\ prev = None
    /\ origin = "none"
    /\ issue = {}
    /\ idx = 0
    /\ enabled_map = EmptyMap
    /\ retval = None

\* No document is being parsed
IdleYaml ==
    /\ yaml_doc = <<>>
    /\ yaml_parser = <<>>
    /\ iter_state = "Start"
    /\ iter_out = <<>>
    /\ yaml_out = None

\* No LeftJoin, no parse and no other call is under way
IdleOthers ==
    /\ join_left = <<>>
    /\ join_right = <<>>
    /\ join_buf = None
    /\ yielded = <<>>
    /\ join_in = None
    /\ parse_in = <<>>
    /\ parsed = None
    /\ satisfied = None
    /\ calls = <<>>
    /\ IdleYaml

\* States with relations only, as from_set reads no conditions
InitBuild ==
    /\ \E es \in EdgeSets : \E kind \in [es -> StateRelation] :
          relations = RelationsOf(es, kind)
    /\ conditions = [s \in Names |-> <<>>]
    /\ InitLocals
    /\ IdleOthers

Init ==
    /\ \E es \in EdgeSets : \E kind \in [es -> StateRelation] :
          relations = RelationsOf(es, kind)
    /\ conditions \in [Names -> CondVecs]
    /\ InitLocals
    /\ IdleOthers

NextBuild ==
    \/ \E S \in SUBSET Names : FromSetCall(S)
    \/ FromSetRound
    \/ FromSetReturn
    \/ Rebuild

Next ==
    \/ \E S \in SUBSET Names : FromSetCall(S)
    \/ FromSetRound
    \/ FromSetReturn
    \/ \E v \in StateVecs : FromVec(v)
    \/ \E iss \in SUBSET Conds : IssueStateCall(iss)
    \/ IssueStateStep
    \/ IssueStateReturn

SpecBuild == InitBuild /\ [][NextBuild]_vars

Spec == Init /\ [][Next]_vars

\* ------------------------------------------------- properties of from_set

\* The relation targets of a state that are members of a set
TargetsIn(s, S) == (DOMAIN relations[s]) \cap S

\* The states reached from a front along relations between members of S
RECURSIVE ReachFrom(_, _, _)
ReachFrom(front, seen, S) ==
    LET nxt == (UNION {TargetsIn(x, S) : x \in front}) \ seen
    IN IF nxt = {} THEN seen ELSE ReachFrom(nxt, seen \cup nxt, S)

\* The relation graph restricted to S has a cycle (a self relation is one)
Cyclic(S) == \E s \in S : s \in ReachFrom(TargetsIn(s, S), TargetsIn(s, S), S)

\* Every relation target of every member of S is a member of S
Closed(S) == \A s \in S : DOMAIN relations[s] \subseteq S

\* Every relation target of every state of the sequence occurs strictly
\* earlier in the sequence
DependencyOrdered(seq) ==
    \A i \in 1..Len(seq) : \A t \in DOMAIN relations[seq[i]] :
        \E j \in 1..(i - 1) : seq[j] = t

\* C1: for an acyclic, transitively closed input set from_set does not fail,
\* and in the sequence it returns every relation target of every state,
\* Extends and Overrides alike, stands strictly before the state.
C1_TargetsFirst ==
    (Closed(input) /\ ~Cyclic(input)) =>
        /\ pc /= "CyclicDependency"
        /\ pc = "built" => DependencyOrdered(data)

C1_Witness ==
    /\ pc = "built"
    /\ Closed(input)
    /\ ~Cyclic(input)
    /\ Len(data) = NumStates
    /\ \E s \in input : \E t, u \in DOMAIN relations[s] :
          /\ relations[s][t] = "Extends"
          /\ relations[s][u] = "Overrides"
          /\ s < t

\* C2: from_set fails with CyclicDependency exactly when the relation graph
\* restricted to the members of the input set has a cycle: a failure implies
\* a cycle, and a returned sequence implies there is none.
C2_CyclicIffCycle ==
    /\ pc = "CyclicDependency" => Cyclic(input)
    /\ pc = "built" => ~Cyclic(input)

C2_Witness ==
    /\ pc = "CyclicDependency"
    /\ data /= <<>>
    /\ \E a, b \in input :
          /\ a /= b
          /\ a \in DOMAIN relations[b] /\ relations[b][a] = "Overrides"
          /\ b \in DOMAIN relations[a] /\ relations[a][b] = "Overrides"
          /\ \A s \in input : TargetsIn(s, input \ {a, b}) = {}

\* C3: from_set terminates: every round entered so far but the failing one
\* has moved a state to the output, a failing round leaves states behind, and
\* never more rounds run than the input set has states.
C3_RoundsBounded ==
    /\ rounds <= Cardinality(input)
    /\ pc \in {"from_set", "built"} => rounds <= Len(data)
    /\ pc = "CyclicDependency" => (rounds <= Len(data) + 1 /\ states /= {})
    /\ pc \in {"from_set", "built", "CyclicDependency"} =>
          Len(data) + Cardinality(states) = Cardinality(input)

C3_Witness ==
    /\ pc = "CyclicDependency"
    /\ rounds = NumStates
    /\ Cardinality(input) = NumStates

\* C4: from_set run on the set of the states of a sequence it returned
\* returns that same sequence.
C4_Stable ==
    (pc = "built" /\ prev.some) => data = prev.val

C4_Witness ==
    /\ pc = "built"
    /\ prev.some
    /\ data = prev.val
    /\ Len(data) = NumStates
    /\ \E i \in 1..(Len(data) - 1) : data[i] > data[i + 1]

\* ---------------------------------------------- properties of issue_state

\* The targets of the Extends relations of a state
ExtendsTargets(s) == {t \in DOMAIN relations[s] : relations[s][t] = "Extends"}

\* The states reached from a front along Extends relations
RECURSIVE ExtendsReach(_, _)
ExtendsReach(front, seen) ==
    LET nxt == (UNION {ExtendsTargets(x) : x \in front}) \ seen
    IN IF nxt = {} THEN seen ELSE ExtendsReach(nxt, seen \cup nxt)

\* The issue satisfies the own conditions of the state and of every state
\* reachable from it through a chain of Extends relations
EnabledFor(s, iss) ==
    \A t \in ExtendsReach({s}, {s}) : ConditionsSatisfied(t, iss)

\* The position of the first occurrence of a state in a sequence
Pos(seq, s) == CHOOSE i \in 1..Len(seq) : seq[i] = s /\ \A j \in 1..(i - 1) : seq[j] /= s

Max(S) == CHOOSE x \in S : \A y \in S : y <= x

\* C5: on a dependency-ordered catalog issue_state returns the last state, in
\* catalog order, that is enabled for the issue, and returns none exactly
\* when no state of the catalog is enabled for the issue.
C5_LastEnabledWins ==
    (pc = "returned" /\ DependencyOrdered(data)) =>
        LET en == {i \in 1..Len(data) : EnabledFor(data[i], issue)}
        IN IF en = {} THEN retval = None ELSE retval = Some(data[Max(en)])

C5_Witness ==
    /\ pc = "returned"
    /\ DependencyOrdered(data)
    /\ Len(data) = NumStates
    /\ \E i, j, k \in 1..Len(data) :
          /\ i < j /\ j < k
          /\ EnabledFor(data[i], issue)
          /\ retval = Some(data[j])
          /\ data[i] \in ExtendsTargets(data[j])
          /\ ~EnabledFor(data[k], issue)

\* C6: on a dependency-ordered catalog the enabled map holds an entry for
\* every state scanned so far, and the flag of a state is true exactly when
\* the issue satisfies the own conditions of the state and of every state
\* reachable from it through Extends relations.
C6_EnabledIffInherited ==
    (pc \in {"scan", "returned"} /\ DependencyOrdered(data)) =>
        /\ DOMAIN enabled_map = {data[i] : i \in 1..(idx - 1)}
        /\ \A s \in DOMAIN enabled_map : enabled_map[s] = EnabledFor(s, issue)

C6_Witness ==
    /\ pc = "returned"
    /\ DependencyOrdered(data)
    /\ \E s, t, u \in Range(data) :
          /\ t \in ExtendsTargets(s)
          /\ u \in ExtendsTargets(t)
          /\ u \notin DOMAIN relations[s]
          /\ ConditionsSatisfied(s, issue)
          /\ ConditionsSatisfied(t, issue)
          /\ ~ConditionsSatisfied(u, issue)
          /\ ~enabled_map[s]

\* The relation maps of all states with the Overrides relations removed
WithoutOverrides ==
    [s \in Names |-> [t \in ExtendsTargets(s) |-> "Extends"]]

\* C7: on any catalog sequence and for any issue, issue_state ends as it does
\* on the same sequence with every Overrides relation removed from the
\* states: with the same error or the same state returned.
C7_OverridesIgnored ==
    (pc \in {"returned", "DependencyError"}) =>
        [err |-> pc = "DependencyError",
         ret |-> IF pc = "DependencyError" THEN None ELSE retval]
            = IssueStateFrom(WithoutOverrides, data, issue, EmptyMap, None)

C7_Witness ==
    /\ pc = "returned"
    /\ \E s \in Range(data) : \E t, u \in DOMAIN relations[s] :
          /\ retval = Some(s)
          /\ relations[s][t] = "Overrides"
          /\ relations[s][u] = "Overrides"
          /\ t \notin Range(data)
          /\ u \in DOMAIN enabled_map
          /\ ~enabled_map[u]

MissingExtendsTarget ==
    /\ pc = "scan"
    /\ idx <= Len(data)
    /\ ~(ExtendsTargets(data[idx]) \subseteq DOMAIN enabled_map)

\* C9: when the state scanned has an Extends relation whose target is missing
\* from the enabled map, issue_state fails with DependencyError, whether or
\* not the issue satisfies the own conditions of that state.
C9_MissingTargetFails ==
    [][MissingExtendsTarget => pc' = "DependencyError"]_vars

\* C10: on a catalog that from_set built from a transitively closed set,
\* issue_state never fails with DependencyError: every Extends target of the
\* state about to be scanned has an entry in the enabled map.
C10_NoDependencyError ==
    (origin = "from_set" /\ Closed(input)) =>
        /\ pc /= "DependencyError"
        /\ ~MissingExtendsTarget

C10_Witness ==
    /\ pc = "scan"
    /\ origin = "from_set"
    /\ Closed(input)
    /\ idx <= Len(data)
    /\ ConditionsSatisfied(data[idx], issue)
    /\ \E t \in ExtendsTargets(data[idx]) : data[idx] < t /\ ~enabled_map[t]
    /\ \E t \in ExtendsTargets(data[idx]) : enabled_map[t]

\* ------------------------------------------------ the four-state scenario

\* The states of tests::smoke in resolution.rs, numbered in the order of
\* their names: "acknowledged" < "assigned" < "closed" < "new"
AcknowledgedState == 1
AssignedState == 2
ClosedState == 3
NewState == 4

\* The conditions "acked", "assigned" and "closed" of the scenario
CondAcked == 1
CondAssigned == 2
CondClosed == 3

SmokeNames == {AcknowledgedState, AssignedState, ClosedState, NewState}

SmokeConds == {CondAcked, CondAssigned, CondClosed}

SmokeConditions ==
    (AcknowledgedState :> <<CondAcked>>) @@ (AssignedState :> <<CondAssigned>>)
        @@ (ClosedState :> <<CondClosed>>) @@ (NewState :> <<>>)

\* The relations as the test builds them: closed overrides assigned only
SmokeRelations ==
    (AcknowledgedState :> (NewState :> "Overrides"))
        @@ (AssignedState :> (AcknowledgedState :> "Extends"))
        @@ (ClosedState :> (AssignedState :> "Overrides"))
        @@ (NewState :> EmptyMap)

\* The relations of the scenario in full: closed overrides the other three
SmokeRelationsFull ==
    (AcknowledgedState :> (NewState :> "Overrides"))
        @@ (AssignedState :> (AcknowledgedState :> "Extends"))
        @@ (ClosedState :> ((AcknowledgedState :> "Overrides") @@ (AssignedState :> "Overrides")
                          @@ (NewState :> "Overrides")))
        @@ (NewState :> EmptyMap)

InitSmoke ==
    /\ relations \in {SmokeRelations, SmokeRelationsFull}
    /\ conditions = SmokeConditions
    /\ InitLocals
    /\ IdleOthers

NextSmoke ==
    \/ \E S \in SUBSET SmokeNames : FromSetCall(S)
    \/ FromSetRound
    \/ FromSetReturn
    \/ \E iss \in SUBSET SmokeConds : IssueStateCall(iss)
    \/ IssueStateStep
    \/ IssueStateReturn

SpecSmoke == InitSmoke /\ [][NextSmoke]_vars

\* C11: the four states new, acknowledged, assigned and closed built through
\* from_set resolve the empty issue to new, {acked} to acknowledged,
\* {assigned} to new (assigned stays disabled as acknowledged is disabled),
\* {acked, assigned} to assigned and {acked, closed} to closed.
C11_Scenario ==
    (input = SmokeNames /\ origin = "from_set") =>
        /\ pc \notin {"CyclicDependency", "DependencyError"}
        /\ pc = "returned" =>
              /\ issue = {} => retval = Some(NewState)
              /\ issue = {CondAcked} => retval = Some(AcknowledgedState)
              /\ issue = {CondAssigned} =>
                    /\ retval = Some(NewState)
                    /\ ~enabled_map[AssignedState]
                    /\ ~enabled_map[AcknowledgedState]
              /\ issue = {CondAcked, CondAssigned} => retval = Some(AssignedState)
              /\ issue = {CondAcked, CondClosed} => retval = Some(ClosedState)

C11_Witness ==
    /\ pc = "returned"
    /\ origin = "from_set"
    /\ input = SmokeNames
    /\ relations = SmokeRelationsFull
    /\ data = <<NewState, AcknowledgedState, AssignedState, ClosedState>>
    /\ issue = {CondAssigned}
    /\ retval = Some(NewState)

\* ------------------------------------------------ LeftJoin, call by call

MaxKey == 8

Keys == 1..MaxKey

\* Items (key, value) of the two iterators; the values tell the sides apart
LeftItem(k) == <<k, <<"left", k>>>>

RightItem(k) == <<k, <<"right", k>>>>

\* The iterators the join is created from: sorted by key, each key once
LeftIters == {[i \in 1..Cardinality(S) |-> LeftItem(Ascending(S)[i])] : S \in SUBSET Keys}

RightIters == {[i \in 1..Cardinality(S) |-> RightItem(Ascending(S)[i])] : S \in SUBSET Keys}

\* No catalog is involved
NoCatalog ==
    /\ relations = [s \in Names |-> EmptyMap]
    /\ conditions = [s \in Names |-> <<>>]
    /\ InitLocals

\* LeftJoin::new(left, right)
JoinNew(l, r) ==
    /\ join_in = Some([left |-> l, right |-> r])
    /\ join_left = l
    /\ join_right = r
    /\ join_buf = None
    /\ yielded = <<>>

\* The last call of next has returned None
JoinEnded == IF yielded = <<>> THEN FALSE ELSE ~yielded[Len(yielded)].some

\* LeftJoin::next; yielded collects what the calls return, up to and
\* including the first None
JoinNext ==
    /\ join_in.some
    /\ ~JoinEnded
    /\ LET item == IterNext(join_left)
       IN IF item.item.some
          THEN LET value == NextRight(join_buf, join_right, item.item.val[1])
               IN /\ join_left' = item.rest
                  /\ join_right' = value.right
                  /\ join_buf' = value.buf
                  /\ yielded' = Append(yielded, Some(<<item.item.val[2], value.value>>))
          ELSE /\ yielded' = Append(yielded, None)
               /\ UNCHANGED <<join_left, join_right, join_buf>>
    /\ UNCHANGED <<resolveVars, join_in, parseVars, satisfied, calls, yamlVars>>

InitJoin ==
    /\ NoCatalog
    /\ \E l \in LeftIters : \E r \in RightIters : JoinNew(l, r)
    /\ parse_in = <<>>
    /\ parsed = None
    /\ satisfied = None
    /\ calls = <<>>
    /\ IdleYaml

NextJoin == JoinNext

SpecJoin == InitJoin /\ [][NextJoin]_vars

\* The right value with the key k, if any
RightValue(right, k) ==
    IF \E j \in 1..Len(right) : right[j][1] = k
    THEN Some((CHOOSE v \in Range(right) : v[1] = k)[2])
    ELSE None

\* C12: over strictly ascending iterators the join yields one entry per left
\* element, in left order, each left value paired with the right value of
\* the same key or with None, and then ends.
C12_OnePerLeft ==
    join_in.some =>
        LET l == join_in.val.left
            r == join_in.val.right
        IN /\ \A i \in 1..Len(yielded) :
                 IF i <= Len(l)
                 THEN yielded[i] = Some(<<l[i][2], RightValue(r, l[i][1])>>)
                 ELSE yielded[i] = None
           /\ Len(yielded) <= Len(l) + 1

\* The example of iter.rs tests::smoke, run to the end
C12_Witness ==
    /\ join_in.some
    /\ [i \in 1..Len(join_in.val.left) |-> join_in.val.left[i][1]] = <<1, 3, 4, 7, 8>>
    /\ [i \in 1..Len(join_in.val.right) |-> join_in.val.right[i][1]] = <<2, 3, 4, 5, 6, 7>>
    /\ Len(yielded) = 6
    /\ ~yielded[1].val[2].some
    /\ yielded[2].val[2] = Some(<<"right", 3>>)
    /\ yielded[3].val[2] = Some(<<"right", 4>>)
    /\ yielded[4].val[2] = Some(<<"right", 7>>)
    /\ ~yielded[5].val[2].some
    /\ ~yielded[6].some

\* ------------------------------------------------------- parse_condition

MaxStrLen == 5

\* Characters: the reserved ones and two plain ones
Chars == {"!", "=", "<", ">", "~", "a", "b"}

\* Strings are sequences of characters
Strings == UNION {[1..n -> Chars] : n \in 0..MaxStrLen}

MatchOp == {"Equivalence", "LowerThan", "GreaterThan", "LowerThanOrEqual",
            "GreaterThanOrEqual", "Contains"}

\* Variant of reserved_char with a fault: a plain character is reserved too
ReservedChar_WithA(c) == c \in {"!", "=", "<", ">", "~", "a"}

\* reserved_char
ReservedChar(c) == c \in {"!", "=", "<", ">", "~"}

\* string.find(|ref c| reserved_char(c)): the offset of the first match
Find(string) ==
    LET hits == {i \in 1..Len(string) : ReservedChar(string[i])}
    IN IF hits = {} THEN None
       ELSE Some((CHOOSE i \in hits : \A j \in hits : i <= j) - 1)

\* Variant of ContainsReserved with a fault: the name is never looked at
ContainsReserved_Never(string) == FALSE

\* name.contains(|ref c| reserved_char(c))
ContainsReserved(string) == \E i \in 1..Len(string) : ReservedChar(string[i])

\* Variant of SplitAt with a fault: the character at the split is lost
SplitAt_Lossy(string, mid) ==
    <<SubSeq(string, 1, mid),
      IF mid + 2 > Len(string) THEN <<>> ELSE SubSeq(string, mid + 2, Len(string))>>

\* str::split_at
SplitAt(string, mid) == <<SubSeq(string, 1, mid), SubSeq(string, mid + 1, Len(string))>>

\* Variant of StartsWith with a fault: no string starts with the character
StartsWith_Never(string, c) == FALSE

\* str::starts_with(char)
StartsWith(string, c) == Len(string) > 0 /\ string[1] = c

ParseOk(name, negated, op_val) ==
    [ok |-> TRUE, name |-> name, negated |-> negated, op_val |-> op_val]

ConditionParseError == [ok |-> FALSE, err |-> "ConditionParseError"]

\* parse_op_val: Some(<<op, value>>), or None for the error
ParseOpVal(string) ==
    LET chars == IterNext(string)
        second == IterNext(chars.rest).item
        op_pos ==
            IF chars.item = Some("=") THEN Some(<<"Equivalence", 1>>)
            ELSE IF chars.item = Some("<")
            THEN IF second = Some("=") THEN Some(<<"LowerThanOrEqual", 2>>)
                 ELSE Some(<<"LowerThan", 1>>)
            ELSE IF chars.item = Some(">")
            THEN IF second = Some("=") THEN Some(<<"GreaterThanOrEqual", 2>>)
                 ELSE Some(<<"GreaterThan", 1>>)
            ELSE IF chars.item = Some("~") THEN Some(<<"Contains", 1>>)
            ELSE None
    IN IF op_pos.some
       THEN Some(<<op_pos.val[1], SplitAt(string, op_pos.val[2])[2]>>)
       ELSE None

\* parse_condition
ParseCondition(string) ==
    LET pos == Find(string)
    IN IF pos.some
       THEN IF pos.val = 0
            THEN LET neg == SplitAt(string, 1)[1]
                     name == SplitAt(string, 1)[2]
                 IN IF neg = <<"!">> /\ ~ContainsReserved(name)
                    THEN ParseOk(name, TRUE, None)
                    ELSE ConditionParseError
            ELSE LET name == SplitAt(string, pos.val)[1]
                     op_val == SplitAt(string, pos.val)[2]
                     negated == StartsWith(op_val, "!")
                     rest == IF negated THEN SplitAt(op_val, 1)[2] ELSE op_val
                     parsed_op == ParseOpVal(rest)
                 IN IF parsed_op.some
                    THEN ParseOk(name, negated, parsed_op)
                    ELSE ConditionParseError
       ELSE ParseOk(string, FALSE, None)

\* A call of parse_condition on the string drawn
ParseConditionCall ==
    /\ ~parsed.some
    /\ parsed' = Some(ParseCondition(parse_in))
    /\ UNCHANGED <<resolveVars, joinVars, parse_in, satisfied, calls, yamlVars>>

InitParse ==
    /\ NoCatalog
    /\ join_left = <<>>
    /\ join_right = <<>>
    /\ join_buf = None
    /\ yielded = <<>>
    /\ join_in = None
    /\ parse_in \in Strings
    /\ parsed = None
    /\ satisfied = None
    /\ calls = <<>>
    /\ IdleYaml

NextParse == ParseConditionCall

SpecParse == InitParse /\ [][NextParse]_vars

\* The reserved characters as the grammar lists them
Reserved == {"!", "=", "<", ">", "~"}

\* The positions of the reserved characters of the string parsed
ReservedAt == {i \in 1..Len(parse_in) : parse_in[i] \in Reserved}

\* C13: a string without reserved character, the empty one included, parses
\* to the whole string as name, not negated, without operator and value.
C13_PlainName ==
    (parsed.some /\ ReservedAt = {}) =>
        parsed.val = [ok |-> TRUE, name |-> parse_in, negated |-> FALSE, op_val |-> None]

C13_Witness ==
    /\ parse_in = <<>>
    /\ parsed = Some([ok |-> TRUE, name |-> <<>>, negated |-> FALSE, op_val |-> None])

\* C14: a string whose first character is reserved parses only if that
\* character is "!" and no reserved character follows, to the remainder as
\* name, negated, without operator; every other such string is a
\* ConditionParseError.
C14_LeadingReserved ==
    (parsed.some /\ 1 \in ReservedAt) =>
        IF parse_in[1] = "!" /\ ReservedAt = {1}
        THEN parsed.val = [ok |-> TRUE, name |-> Tail(parse_in), negated |-> TRUE,
                           op_val |-> None]
        ELSE parsed.val = [ok |-> FALSE, err |-> "ConditionParseError"]

C14_Witness ==
    /\ parse_in = <<"!", "!", "a">>
    /\ parsed = Some([ok |-> FALSE, err |-> "ConditionParseError"])

\* The operator tokens of the grammar
OpTokens ==
    {[tok |-> <<"=">>, op |-> "Equivalence"],
     [tok |-> <<"<", "=">>, op |-> "LowerThanOrEqual"],
     [tok |-> <<"<">>, op |-> "LowerThan"],
     [tok |-> <<">", "=">>, op |-> "GreaterThanOrEqual"],
     [tok |-> <<">">>, op |-> "GreaterThan"],
     [tok |-> <<"~">>, op |-> "Contains"]}

IsPrefix(p, s) == Len(p) <= Len(s) /\ SubSeq(s, 1, Len(p)) = p

\* C15: with the first reserved character after the start, the name is the
\* text before it, the condition is negated iff "!" stands there, the
\* operator is the longest token at the front of what follows and the value
\* is all the text after the token; without a token there the string is a
\* ConditionParseError.
C15_NameOpValue ==
    (parsed.some /\ ReservedAt # {} /\ 1 \notin ReservedAt) =>
        LET first == CHOOSE i \in ReservedAt : \A j \in ReservedAt : i <= j
            neg == parse_in[first] = "!"
            from == IF neg THEN first + 1 ELSE first
            body == SubSeq(parse_in, from, Len(parse_in))
            toks == {t \in OpTokens : IsPrefix(t.tok, body)}
        IN IF toks = {}
           THEN parsed.val = [ok |-> FALSE, err |-> "ConditionParseError"]
           ELSE LET t == CHOOSE t \in toks : \A u \in toks : Len(u.tok) <= Len(t.tok)
                IN parsed.val =
                       [ok |-> TRUE, name |-> SubSeq(parse_in, 1, first - 1),
                        negated |-> neg,
                        op_val |-> Some(<<t.op, SubSeq(body, Len(t.tok) + 1, Len(body))>>)]

C15_Witness ==
    /\ parse_in = <<"a", "!", "<", "=", "b">>
    /\ parsed = Some([ok |-> TRUE, name |-> <<"a">>, negated |-> TRUE,
                      op_val |-> Some(<<"LowerThanOrEqual", <<"b">>>>)])

\* -------------------------------------------- conditions_satisfied alone

\* Conditions and condition vectors with room for a satisfied condition next
\* to a failing one
WideConds == 1..(NumConds + 1)

WideCondVecs == UNION {[1..n -> WideConds] : n \in 0..(MaxConds + 1)}

\* A call of conditions_satisfied on the state s
ConditionsSatisfiedCall(s, iss) ==
    /\ ~satisfied.some
    /\ satisfied' = Some([state |-> s, issue |-> iss,
                          result |-> ConditionsSatisfied(s, iss)])
    /\ UNCHANGED <<resolveVars, joinVars, parseVars, calls, yamlVars>>

\* Catalog entries with at most one relation, two of them with conditions
InitConds ==
    /\ \E es \in {e \in EdgeSets : Cardinality(e) <= 1} :
          \E kind \in [es -> StateRelation] : relations = RelationsOf(es, kind)
    /\ \E s \in Names : \E u \in Names : \E a \in WideCondVecs : \E b \in WideCondVecs :
          conditions = [x \in Names |-> IF x = s THEN a ELSE IF x = u THEN b ELSE <<>>]
    /\ InitLocals
    /\ IdleOthers

NextConds == \E s \in Names : \E iss \in SUBSET WideConds : ConditionsSatisfiedCall(s, iss)

SpecConds == InitConds /\ [][NextConds]_vars

\* C16: conditions_satisfied is true exactly when the issue satisfies every
\* condition of the state itself: true without conditions, false with one
\* failing condition, whatever the relations of the state are.
C16_AllOwnConditions ==
    satisfied.some =>
        LET own == conditions[satisfied.val.state]
        IN /\ satisfied.val.result = (Range(own) \subseteq satisfied.val.issue)
           /\ own = <<>> => satisfied.val.result

\* A state whose own conditions hold and that extends a state whose
\* conditions fail
C16_Witness ==
    /\ satisfied.some
    /\ satisfied.val.result
    /\ Len(conditions[satisfied.val.state]) = 2
    /\ \E t \in Names :
          /\ t \in DOMAIN relations[satisfied.val.state]
          /\ relations[satisfied.val.state][t] = "Extends"
          /\ ~(Range(conditions[t]) \subseteq satisfied.val.issue)

\* --------------------------------- issue_state calls on a shared catalog

NumCalls == 2

Calls == 1..NumCalls

\* Variant of EnabledMapOf with a fault: every call reads the map of the
\* first call
EnabledMapOf_Shared(c) == calls[1].enabled_map

\* let mut enabled_map = EnabledMap::default(): a local of the call
EnabledMapOf(c) == calls[c].enabled_map

\* The locals of a call of issue_state not entered yet
IdleCall == [pc |-> "idle", issue |-> {}, idx |-> 0, enabled_map |-> EmptyMap,
             retval |-> None]

\* The call c of issue_state is entered with an issue
CallIssueState(c, iss) ==
    /\ calls[c].pc = "idle"
    /\ calls' = [calls EXCEPT ![c] = [pc |-> "scan", issue |-> iss, idx |-> 1,
                                      enabled_map |-> EmptyMap, retval |-> None]]
    /\ UNCHANGED <<resolveVars, joinVars, parseVars, satisfied, yamlVars>>

\* One iteration of the for loop of the call c
CallStep(c) ==
    /\ calls[c].pc = "scan"
    /\ calls[c].idx <= Len(data)
    /\ LET state == data[calls[c].idx]
           e == Enabled(relations[state], state, calls[c].issue, EnabledMapOf(c))
       IN IF ~e.some
          THEN calls' = [calls EXCEPT ![c].pc = "DependencyError"]
          ELSE calls' = [calls EXCEPT
                            ![c].enabled_map = MapInsert(calls[c].enabled_map, state, e.val),
                            ![c].retval = NewRetval(calls[c].retval, state, e.val),
                            ![c].idx = calls[c].idx + 1]
    /\ UNCHANGED <<resolveVars, joinVars, parseVars, satisfied, yamlVars>>

\* The loop of the call c ends
CallReturn(c) ==
    /\ calls[c].pc = "scan"
    /\ calls[c].idx > Len(data)
    /\ calls' = [calls EXCEPT ![c].pc = "returned"]
    /\ UNCHANGED <<resolveVars, joinVars, parseVars, satisfied, yamlVars>>

\* A catalog as From<IssueStateVec> takes it, shared by the calls
InitShared ==
    /\ \E es \in {e \in EdgeSets : Cardinality(e) < MaxRelations} :
          \E kind \in [es -> StateRelation] : relations = RelationsOf(es, kind)
    /\ conditions \in [Names -> CondVecs]
    /\ pc = "built"
    /\ data \in StateVecs
    /\ origin = "from_vec"
    /\ states = {}
    /\ rounds = 0
    /\ input = {}
    /\ prev = None
    /\ issue = {}
    /\ idx = 0
    /\ enabled_map = EmptyMap
    /\ retval = None
    /\ join_left = <<>>
    /\ join_right = <<>>
    /\ join_buf = None
    /\ yielded = <<>>
    /\ join_in = None
    /\ parse_in = <<>>
    /\ parsed = None
    /\ satisfied = None
    /\ calls = [c \in Calls |-> IdleCall]
    /\ IdleYaml

NextShared ==
    \/ \E c \in Calls : \E iss \in SUBSET Conds : CallIssueState(c, iss)
    \/ \E c \in Calls : CallStep(c)
    \/ \E c \in Calls : CallReturn(c)

SpecShared == InitShared /\ [][NextShared]_vars

\* What the call c has to end with when it runs alone on the catalog
AsAlone(c) ==
    LET alone == IssueStateFrom(relations, data, calls[c].issue, EmptyMap, None)
    IN IF alone.err THEN calls[c].pc = "DependencyError"
       ELSE calls[c].pc = "returned" /\ calls[c].retval = alone.ret

\* C17: calls of issue_state interleaved on one catalog leave the catalog,
\* the conditions and the relations as they are, each call fills a map of
\* its own from empty, and each call ends as the same call run alone does.
C17_CallsIndependent ==
    /\ [](\A c \in Calls :
            /\ calls[c].pc \in {"returned", "DependencyError"} => AsAlone(c)
            /\ calls[c].pc = "scan" =>
                  DOMAIN calls[c].enabled_map = {data[i] : i \in 1..(calls[c].idx - 1)})
    /\ [][data' = data /\ relations' = relations /\ conditions' = conditions]_vars

\* Two calls with different issues, one ended and one in its loop, that
\* found the same state enabled in the one call and disabled in the other
C17_Witness ==
    \E c, d \in Calls :
        /\ calls[c].pc = "returned"
        /\ calls[d].pc = "scan"
        /\ calls[d].idx > 1
        /\ calls[c].issue /= calls[d].issue
        /\ \E s \in DOMAIN calls[d].enabled_map :
              calls[c].enabled_map[s] /= calls[d].enabled_map[s]
        /\ \E s \in Range(data) : \E t \in DOMAIN relations[s] : relations[s][t] = "Extends"

\* ------------------------------------------------- the rounds of from_set

\* The round of the state s of the input set: 1 without relation targets in
\* the set, else one more than the largest round of its targets in the set
\* (followed along at most depth relations, which suffices without cycles)
RECURSIVE RoundOf(_, _)
RoundOf(s, depth) ==
    IF depth = 0 \/ TargetsIn(s, input) = {} THEN 1
    ELSE 1 + Max({RoundOf(t, depth - 1) : t \in TargetsIn(s, input)})

Round(s) == RoundOf(s, Cardinality(input))

\* The states of the rounds k and later, round by round, ascending by name
\* within a round
RECURSIVE RoundsFrom(_)
RoundsFrom(k) ==
    IF k > Cardinality(input) THEN <<>>
    ELSE Ascending({s \in input : Round(s) = k}) \o RoundsFrom(k + 1)

\* C18: the sequence from_set returns is the concatenation of its rounds in
\* increasing order, each round in ascending order of name, where a state
\* without relation target in the input set is in round 1 and any other
\* state is in the round after the last round of its targets in the set.
C18_RoundsInOrder ==
    pc = "built" =>
        /\ data = RoundsFrom(1)
        /\ \A s \in input : Round(s) <= rounds
        /\ input /= {} => \E s \in input : Round(s) = rounds

\* Two states of the first round with a state of the second round between
\* them in the order of names
C18_Witness ==
    /\ pc = "built"
    /\ rounds = 2
    /\ \E i, j, k \in 1..Len(data) :
          /\ i < j /\ j < k
          /\ data[i] < data[k] /\ data[k] < data[j]
          /\ Round(data[i]) = 1 /\ Round(data[j]) = 1 /\ Round(data[k]) = 2

\* ------------------------------------------ from_set as one computation

\* The while loop of from_set run to its end on the origin set sts with the
\* sequence data built so far: the sequence returned, or the error
RECURSIVE FromSetFrom(_, _, _)
FromSetFrom(relOf, sts, sofar) ==
    IF sts = {} THEN [err |-> FALSE, data |-> sofar]
    ELSE LET old_len == Len(sofar)
             new_data == sofar \o Batch(relOf, sts)
             added == {new_data[i] : i \in (old_len + 1)..Len(new_data)}
         IN IF NoneFound(Len(new_data), old_len)
            THEN [err |-> TRUE, data |-> <<>>]
            ELSE FromSetFrom(relOf, sts \ added, new_data)

\* The relations of all states as pairs (referrer, target)
Edges == {e \in Names \X Names : e[2] \in DOMAIN relations[e[1]]}

\* The run of from_set has ended, with a sequence or with the error
Ended == pc \in {"built", "CyclicDependency"}

\* The relations with the kind of the relation e changed to the other kind
KindChanged(e) ==
    [relations EXCEPT ![e[1]][e[2]] = IF @ = "Extends" THEN "Overrides" ELSE "Extends"]

\* C19: from_set ends the same way, with the same sequence or with
\* CyclicDependency, when the kind of any one relation is changed from
\* Extends to Overrides or back; relation by relation this covers every
\* assignment of kinds, a cycle of mixed kinds included.
C19_KindsIgnored ==
    (Ended /\ origin = "from_set") =>
        \A e \in Edges :
            LET other == FromSetFrom(KindChanged(e), input, <<>>)
            IN /\ other.err = (pc = "CyclicDependency")
               /\ ~other.err => other.data = data

\* A cycle of one Extends and one Overrides relation, found as a cycle
C19_Witness ==
    /\ pc = "CyclicDependency"
    /\ \E s, t \in input :
          /\ s /= t
          /\ t \in DOMAIN relations[s] /\ relations[s][t] = "Extends"
          /\ s \in DOMAIN relations[t] /\ relations[t][s] = "Overrides"

\* The relations with the targets outside the input set left out
WithoutOutside ==
    [s \in Names |-> [t \in TargetsIn(s, input) |-> relations[s][t]]]

\* C20: on an input set that is not closed, a relation target outside the
\* set counts as resolved: from_set ends as it does with those relations
\* left out, fails only for a cycle within the set, and the sequence it
\* returns holds exactly the members of the set, the referring state
\* without its target.
C20_OutsideTargetResolved ==
    (Ended /\ origin = "from_set" /\ ~Closed(input)) =>
        LET inside == FromSetFrom(WithoutOutside, input, <<>>)
        IN /\ inside.err = (pc = "CyclicDependency")
           /\ pc = "CyclicDependency" => Cyclic(input)
           /\ pc = "built" =>
                 /\ data = inside.data
                 /\ Range(data) = input
                 /\ Len(data) = Cardinality(input)

\* A state all of whose targets are outside the set is emitted first, ahead
\* of a state that refers to it, and its target is not in the sequence
C20_Witness ==
    /\ pc = "built"
    /\ Len(data) >= 2
    /\ DOMAIN relations[data[1]] /= {}
    /\ DOMAIN relations[data[1]] \cap input = {}
    /\ data[1] \in DOMAIN relations[data[2]]
    /\ DOMAIN relations[data[1]] \cap Range(data) = {}

\* ------------------------------------------------ the buffer of LeftJoin

\* The elements taken from the right iterator so far
RightTaken ==
    SubSeq(join_in.val.right, 1, Len(join_in.val.right) - Len(join_right))

\* The entries yielded so far (a final None left aside)
Entries == SelectSeq(yielded, LAMBDA y : y.some)

\* C21: after the entry for the left key k the elements taken from the right
\* iterator are those with a key of at most k and at most one more, which
\* then is in the buffer; otherwise the buffer is empty; and no right value
\* is yielded for a left key other than its own.
C21_OneAhead ==
    (join_in.some /\ Entries /= <<>>) =>
        LET right == join_in.val.right
            k == join_in.val.left[Len(Entries)][1]
            upto == Cardinality({i \in 1..Len(right) : right[i][1] <= k})
        IN /\ \/ /\ Len(RightTaken) = upto
                 /\ join_buf = None
              \/ /\ Len(RightTaken) = upto + 1
                 /\ join_buf = Some(right[upto + 1])
           /\ \A i \in 1..Len(Entries) :
                 Entries[i].val[2].some =>
                     Entries[i].val[2].val = <<"right", join_in.val.left[i][1]>>

\* A right element with a smaller key was discarded, one with a greater key
\* is buffered, and more of the right iterator is still to come
C21_Witness ==
    /\ join_in.some
    /\ Len(Entries) = 2
    /\ join_buf.some
    /\ join_buf.val[1] > join_in.val.left[2][1]
    /\ join_right /= <<>>
    /\ Len(RightTaken) >= 3
    /\ join_in.val.right[1][1] < join_in.val.left[1][1]

\* ------------------------------------------------------------ StringIter

MaxEvents == 4

\* parser::Event, with the value of a scalar; "ScanError" stands for a call
\* of Parser::next that returns Err
Scalar(s) == [ev |-> "Scalar", val |-> s]

Event(kind) == [ev |-> kind, val |-> ""]

\* Parser::next: the next event; a stream at its end keeps giving StreamEnd
ParserNext(parser) ==
    IF parser = <<>> THEN [event |-> Event("StreamEnd"), rest |-> <<>>]
    ELSE [event |-> Head(parser), rest |-> Tail(parser)]

\* Items of StringIter: Ok((string, marker)) and Err(ScanError)
ItemOk(s) == [ok |-> TRUE, val |-> s]

ItemErr(msg) == [ok |-> FALSE, val |-> msg]

\* Variant of InSequence with a fault: SequenceEnd does not end the iterator
InSequence_NoEnd(parser) ==
    LET n == ParserNext(parser)
    IN IF n.event.ev = "Scalar"
       THEN [item |-> Some(ItemOk(n.event.val)), state |-> "Sequence", parser |-> n.rest]
       ELSE IF n.event.ev = "SequenceEnd"
       THEN [item |-> None, state |-> "Sequence", parser |-> n.rest]
       ELSE IF n.event.ev = "ScanError"
       THEN [item |-> Some(ItemErr("ScanError")), state |-> "Sequence", parser |-> n.rest]
       ELSE [item |-> Some(ItemErr("Expected scalar")), state |-> "End", parser |-> n.rest]

\* StringIter::in_sequence: the item returned, the state and the parser after
InSequence(parser) ==
    LET n == ParserNext(parser)
    IN IF n.event.ev = "Scalar"
       THEN [item |-> Some(ItemOk(n.event.val)), state |-> "Sequence", parser |-> n.rest]
       ELSE IF n.event.ev = "SequenceEnd"
       THEN [item |-> None, state |-> "End", parser |-> n.rest]
       ELSE IF n.event.ev = "ScanError"
       THEN [item |-> Some(ItemErr("ScanError")), state |-> "Sequence", parser |-> n.rest]
       ELSE [item |-> Some(ItemErr("Expected scalar")), state |-> "End", parser |-> n.rest]

\* StringIter::next in the state given
StringIterNext(state, parser) ==
    IF state = "Start"
    THEN LET n == ParserNext(parser)
         IN IF n.event.ev = "SequenceStart" THEN InSequence(n.rest)
            ELSE IF n.event.ev = "Scalar"
            THEN [item |-> Some(ItemOk(n.event.val)), state |-> "End", parser |-> n.rest]
            ELSE IF n.event.ev = "ScanError"
            THEN [item |-> Some(ItemErr("ScanError")), state |-> "Start", parser |-> n.rest]
            ELSE [item |-> Some(ItemErr("Expected scalar or list of scalars")),
                  state |-> "End", parser |-> n.rest]
    ELSE IF state = "Sequence" THEN InSequence(parser)
    ELSE [item |-> None, state |-> "End", parser |-> parser]

\* The events a document may hold where a list is expected
ListEvents ==
    {Scalar("a"), Scalar("b"), Event("SequenceStart"), Event("SequenceEnd"),
     Event("MappingStart"), Event("ScanError")}

EventStreams == UNION {[1..n -> ListEvents] : n \in 0..MaxEvents}

\* A call of next on the StringIter; the calls go on a little beyond the end
StringIterCall ==
    /\ Len(iter_out) < Len(yaml_doc) + 3
    /\ LET r == StringIterNext(iter_state, yaml_parser)
       IN /\ iter_out' = Append(iter_out, r.item)
          /\ iter_state' = r.state
          /\ yaml_parser' = r.parser
    /\ UNCHANGED <<resolveVars, joinVars, parseVars, satisfied, calls, yaml_doc, yaml_out>>

\* StringIter::new on a parser that stands where a list is expected
InitStringIter ==
    /\ NoCatalog
    /\ join_left = <<>>
    /\ join_right = <<>>
    /\ join_buf = None
    /\ yielded = <<>>
    /\ join_in = None
    /\ parse_in = <<>>
    /\ parsed = None
    /\ satisfied = None
    /\ calls = <<>>
    /\ yaml_doc \in EventStreams
    /\ yaml_parser = yaml_doc
    /\ iter_state = "Start"
    /\ iter_out = <<>>
    /\ yaml_out = None

NextStringIter == StringIterCall

SpecStringIter == InitStringIter /\ [][NextStringIter]_vars

\* The number of scalars of the document that follow its first event directly
LeadingScalars ==
    Cardinality({n \in 1..(Len(yaml_doc) - 1) :
                    \A i \in 2..(n + 1) : yaml_doc[i].ev = "Scalar"})

\* The call i of next has ended the iterator: it returned None, or the
\* error for an event that is no scalar
EndsAt(i) ==
    \/ iter_out[i] = None
    \/ iter_out[i] = Some(ItemErr("Expected scalar"))
    \/ iter_out[i] = Some(ItemErr("Expected scalar or list of scalars"))

\* C23: a single scalar is iterated as one item, a sequence of scalars as
\* its items in order; after the single scalar, after SequenceEnd and after
\* the error for a non-scalar event the iterator is in its End state, where
\* every call of next returns None and leaves the parser as it is.
C23_EndIsFinal ==
    /\ [](/\ (iter_out /= <<>> /\ yaml_doc /= <<>> /\ yaml_doc[1].ev = "Scalar") =>
                /\ iter_out[1] = Some(ItemOk(yaml_doc[1].val))
                /\ \A i \in 2..Len(iter_out) : iter_out[i] = None
                /\ yaml_parser = Tail(yaml_doc)
          /\ (iter_out /= <<>> /\ yaml_doc /= <<>> /\ yaml_doc[1].ev = "SequenceStart"
                 /\ Len(yaml_doc) >= LeadingScalars + 2
                 /\ yaml_doc[LeadingScalars + 2].ev = "SequenceEnd") =>
                \A i \in 1..Len(iter_out) :
                    IF i <= LeadingScalars
                    THEN iter_out[i] = Some(ItemOk(yaml_doc[i + 1].val))
                    ELSE /\ iter_out[i] = None
                         /\ yaml_parser = SubSeq(yaml_doc, LeadingScalars + 3, Len(yaml_doc))
          /\ \A i \in 1..Len(iter_out) :
                EndsAt(i) => /\ iter_state = "End"
                             /\ \A j \in (i + 1)..Len(iter_out) : iter_out[j] = None)
    /\ [][iter_state = "End" =>
             /\ iter_out' = Append(iter_out, None)
             /\ yaml_parser' = yaml_parser
             /\ iter_state' = "End"]_vars

\* A sequence of one scalar with a scalar after its end: the item, then None
\* twice, and the scalar after the sequence is still with the parser
C23_Witness ==
    /\ yaml_doc = <<Event("SequenceStart"), Scalar("a"), Event("SequenceEnd"), Scalar("b")>>
    /\ iter_out = <<Some(ItemOk("a")), None, None>>
    /\ iter_state = "End"
    /\ yaml_parser = <<Scalar("b")>>

\* ---------------------------------------------------- parse_issue_states

\* Results of the parsing functions: a value and the parser after it, or the
\* message of the ScanError
YamlOk(value, parser) == [ok |-> TRUE, value |-> value, err |-> "", parser |-> parser]

YamlErr(msg, parser) == [ok |-> FALSE, value |-> <<>>, err |-> msg, parser |-> parser]

\* The scalars that stand for conditions, as the characters parse_condition
\* reads
CondChars == ("a" :> <<"a">>) @@ ("=a" :> <<"=", "a">>)

\* IssueState::new(name) with the conditions and relations assigned
NewIssueState(name, conds, rels) ==
    [name |-> name, conditions |-> conds, relations |-> rels]

\* existing_states.iter().find(|s| *s.name() == name) finds a state
FindState(existing_states, name) ==
    \E i \in 1..Len(existing_states) : existing_states[i].name = name

\* parse_state_relations: the for loop over StringIter, entered with the
\* state of the iterator
RECURSIVE ParseStateRelations(_, _, _, _, _)
ParseStateRelations(rels, state, parser, existing_states, relation) ==
    LET item == StringIterNext(state, parser)
    IN IF ~item.item.some THEN YamlOk(rels, item.parser)
       ELSE IF ~item.item.val.ok THEN YamlErr(item.item.val.val, item.parser)
       ELSE IF ~FindState(existing_states, item.item.val.val)
       THEN YamlErr("Unknown state", item.parser)
       ELSE ParseStateRelations(MapInsert(rels, item.item.val.val, relation),
                                item.state, item.parser, existing_states, relation)

\* The for loop over the conditions in parse_issue_state_map; the factory is
\* TestCondFactory behind ConditionFactory::parse_condition
RECURSIVE ParseConditions(_, _, _)
ParseConditions(conds, state, parser) ==
    LET item == StringIterNext(state, parser)
    IN IF ~item.item.some THEN YamlOk(conds, item.parser)
       ELSE IF ~item.item.val.ok THEN YamlErr(item.item.val.val, item.parser)
       ELSE LET cond == ParseCondition(CondChars[item.item.val.val])
            IN IF ~cond.ok THEN YamlErr(cond.err, item.parser)
               ELSE ParseConditions(Append(conds, cond.name), item.state, item.parser)

\* parse_issue_state_map: the loop over the entries of the mapping
RECURSIVE ParseIssueStateMap(_, _, _, _, _)
ParseIssueStateMap(parser, existing_states, name, conds, rels) ==
    LET key == ParserNext(parser)
    IN IF key.event.ev = "ScanError" THEN YamlErr("ScanError", key.rest)
       ELSE IF key.event.ev = "MappingEnd"
       THEN YamlOk(NewIssueState(name, conds, rels), key.rest)
       ELSE IF key.event.ev /= "Scalar" THEN YamlErr("Expected scalar key", key.rest)
       ELSE IF key.event.val = "name"
       THEN LET value == ParserNext(key.rest)
            IN IF value.event.ev = "ScanError" THEN YamlErr("ScanError", value.rest)
               ELSE IF value.event.ev = "Scalar"
               THEN ParseIssueStateMap(value.rest, existing_states, value.event.val,
                                       conds, rels)
               ELSE YamlErr("Expected state name as scalar", value.rest)
       ELSE IF key.event.val = "conditions"
       THEN LET r == ParseConditions(conds, "Start", key.rest)
            IN IF ~r.ok THEN r
               ELSE ParseIssueStateMap(r.parser, existing_states, name, r.value, rels)
       ELSE IF key.event.val \in {"overrides", "extends"}
       THEN LET r == ParseStateRelations(rels, "Start", key.rest, existing_states,
                         IF key.event.val = "overrides" THEN "Overrides" ELSE "Extends")
            IN IF ~r.ok THEN r
               ELSE ParseIssueStateMap(r.parser, existing_states, name, conds, r.value)
       ELSE YamlErr("Expected either 'name', 'conditions', 'overrides' or 'extends'",
                    key.rest)

\* parse_issue_states: the loop over the items of the top-level sequence
RECURSIVE ParseStatesLoop(_, _)
ParseStatesLoop(parser, vec) ==
    LET n == ParserNext(parser)
    IN IF n.event.ev = "ScanError" THEN YamlErr("ScanError", n.rest)
       ELSE IF n.event.ev = "SequenceEnd" THEN YamlOk(vec, n.rest)
       ELSE IF n.event.ev = "Scalar"
       THEN ParseStatesLoop(n.rest, Append(vec, NewIssueState(n.event.val, <<>>, EmptyMap)))
       ELSE IF n.event.ev = "MappingStart"
       THEN LET r == ParseIssueStateMap(n.rest, vec, "", <<>>, EmptyMap)
            IN IF ~r.ok THEN r ELSE ParseStatesLoop(r.parser, Append(vec, r.value))
       ELSE YamlErr("Expected issue state as either map or scalar", n.rest)

\* parse_issue_states: the beginning of the document is skipped with peek
RECURSIVE ParseIssueStates(_)
ParseIssueStates(parser) ==
    LET peek == ParserNext(parser).event
    IN IF peek.ev = "ScanError" THEN YamlErr("ScanError", parser)
       ELSE IF peek.ev \in {"StreamStart", "DocumentStart"}
       THEN ParseIssueStates(ParserNext(parser).rest)
       ELSE IF peek.ev \in {"StreamEnd", "DocumentEnd"} THEN YamlOk(<<>>, parser)
       ELSE IF peek.ev = "SequenceStart" THEN ParseStatesLoop(ParserNext(parser).rest, <<>>)
       ELSE YamlErr("Expected sequence of issue states", parser)

\* The documents: at most MaxDocStates states, each a scalar or a mapping of
\* at most MaxEntries entries
MaxDocStates == 2

MaxEntries == 2

YamlNames == {"a", "b"}

RECURSIVE Flatten(_)
Flatten(seqs) == IF seqs = <<>> THEN <<>> ELSE Head(seqs) \o Flatten(Tail(seqs))

\* The events of a list of names: one scalar, a sequence of scalars, or a
\* mapping where the list is expected
NameLists ==
    {<<Scalar(n)>> : n \in YamlNames}
        \cup {<<Event("SequenceStart")>> \o l \o <<Event("SequenceEnd")>> :
                 l \in {<<>>, <<Scalar("a")>>, <<Scalar("b")>>, <<Scalar("a"), Scalar("b")>>}}
        \cup {<<Event("MappingStart"), Event("MappingEnd")>>}

\* The events of one entry of a mapping: its key and its value
MapEntries ==
    {<<Scalar("name"), Scalar(n)>> : n \in YamlNames}
        \cup {<<Scalar(k)>> \o l : k \in {"overrides", "extends"}, l \in NameLists}
        \cup {<<Scalar("conditions"), Scalar(c)>> : c \in DOMAIN CondChars}
        \cup {<<Scalar("other"), Scalar("a")>>}

\* The events of one item of the top-level sequence
StateItems ==
    {<<Scalar(n)>> : n \in YamlNames}
        \cup {<<Event("MappingStart")>> \o Flatten(es) \o <<Event("MappingEnd")>> :
                 es \in UNION {[1..n -> MapEntries] : n \in 0..MaxEntries}}

YamlDocs ==
    {<<Event("StreamStart"), Event("DocumentStart"), Event("SequenceStart")>>
       \o Flatten(items)
       \o <<Event("SequenceEnd"), Event("DocumentEnd"), Event("StreamEnd")>> :
         items \in UNION {[1..n -> StateItems] : n \in 0..MaxDocStates}}

\* A call of parse_issue_states on the parser
ParseIssueStatesCall ==
    /\ ~yaml_out.some
    /\ LET r == ParseIssueStates(yaml_parser)
       IN /\ yaml_out' = Some(r)
          /\ yaml_parser' = r.parser
    /\ UNCHANGED <<resolveVars, joinVars, parseVars, satisfied, calls,
                   yaml_doc, iter_state, iter_out>>

InitYaml ==
    /\ NoCatalog
    /\ join_left = <<>>
    /\ join_right = <<>>
    /\ join_buf = None
    /\ yielded = <<>>
    /\ join_in = None
    /\ parse_in = <<>>
    /\ parsed = None
    /\ satisfied = None
    /\ calls = <<>>
    /\ yaml_doc \in YamlDocs
    /\ yaml_parser = yaml_doc
    /\ iter_state = "Start"
    /\ iter_out = <<>>
    /\ yaml_out = None

NextYaml == ParseIssueStatesCall

SpecYaml == InitYaml /\ [][NextYaml]_vars

\* The states of a parsed list that have a relation to a state of their own
\* name or to a name no earlier state of the list has
SelfNamed(vec) == {i \in 1..Len(vec) : vec[i].name \in DOMAIN vec[i].relations}

Dangling(vec) ==
    {i \in 1..Len(vec) : \E t \in DOMAIN vec[i].relations :
        \A j \in 1..(i - 1) : vec[j].name /= t}

\* C22: in every successfully parsed state list every name under "overrides"
\* or "extends" is the name of a state completed earlier in the document and
\* never the name of the state that lists it, so that every relation target
\* precedes the state that refers to it. (Two states of one name are
\* accepted, and the second one may then list its own name.)
C22_OnlyEarlierStates ==
    (yaml_out.some /\ yaml_out.val.ok) =>
        /\ Dangling(yaml_out.val.value) = {}
        /\ SelfNamed(yaml_out.val.value) = {}

\* ----------------------------------------- from_set moves states, no more

\* C24: all through from_set the result sequence holds no state twice, the
\* sequence and the origin set are disjoint and hold the input states
\* between them; so a sequence returned holds every input state exactly once
\* and no state from outside the input set.
C24_Permutation ==
    origin = "from_set" =>
        /\ Cardinality(Range(data)) = Len(data)
        /\ Range(data) \cap states = {}
        /\ Range(data) \cup states = input
        /\ pc = "built" => Range(data) = input

\* A sequence of two rounds returned for an input set with a relation target
\* outside of it
C24_Witness ==
    /\ pc = "built"
    /\ origin = "from_set"
    /\ rounds = 2
    /\ \E s \in input : DOMAIN relations[s] \ input /= {}

\* ------------------------------------------- the state issue_state returns

\* C25: on a catalog built by from_set the state issue_state returns is
\* enabled for the issue, and no state of the catalog that is enabled for
\* the issue has it as the target of a relation, Extends or Overrides.
C25_WinnerNotATarget ==
    (pc = "returned" /\ origin = "from_set" /\ retval.some) =>
        /\ retval.val \in Range(data)
        /\ EnabledFor(retval.val, issue)
        /\ \A s \in Range(data) :
              EnabledFor(s, issue) => retval.val \notin DOMAIN relations[s]

\* The state returned is the target of a state that is not enabled, and
\* itself overrides an enabled state
C25_Witness ==
    /\ pc = "returned"
    /\ origin = "from_set"
    /\ retval.some
    /\ \E s, t \in Range(data) :
          /\ retval.val \in DOMAIN relations[s]
          /\ ~EnabledFor(s, issue)
          /\ t \in DOMAIN relations[retval.val]
          /\ relations[retval.val][t] = "Overrides"
          /\ EnabledFor(t, issue)

\* ------------------------------------------- parse_condition, read back

\* The token of an operator as the grammar writes it
TokenOf(op) == (CHOOSE t \in OpTokens : t.op = op).tok

\* The parts of a result written in the form of the input
Written(r) ==
    IF r.op_val.some
    THEN r.name \o (IF r.negated THEN <<"!">> ELSE <<>>)
             \o TokenOf(r.op_val.val[1]) \o r.op_val.val[2]
    ELSE (IF r.negated THEN <<"!">> ELSE <<>>) \o r.name

\* C26: a successful parse_condition returns a name without reserved
\* character, and its parts written in the form of the input ("!" and the
\* name for a negated existence check; otherwise the name, "!" if negated,
\* the operator token, the value) are the input string.
C26_Lossless ==
    (parsed.some /\ parsed.val.ok) =>
        /\ \A i \in 1..Len(parsed.val.name) : parsed.val.name[i] \notin Reserved
        /\ Written(parsed.val) = parse_in

\* A negated comparison whose value holds reserved characters
C26_Witness ==
    /\ parse_in = <<"a", "!", ">", "=", "!">>
    /\ parsed.some
    /\ parsed.val.ok
    /\ parsed.val.negated
    /\ parsed.val.op_val = Some(<<"GreaterThanOrEqual", <<"!">>>>)

====
